---- MODULE Spec2Model ----
(***************************************************************************)
(* The Brewin v1 tree-walking interpreter of src/interpreterv1.py.         *)
(*                                                                         *)
(* The parsed program is read-only input.  run() reads the statement list  *)
(* of main one element at a time and each element exactly once, so the     *)
(* statement is drawn when the loop reaches it (RunStmt) and the end of    *)
(* the list is drawn when the loop leaves (RunReturn).                     *)
(*                                                                         *)
(* Two specifications:                                                     *)
(*   Spec      the Interpreter object from construction on: run() called   *)
(*             up to MaxRuns times, one action per loop iteration;         *)
(*   SpecEval  one call of eval() on an expression drawn from Exprs, in an *)
(*             Environment/output/input drawn from bounded sets.           *)
(*                                                                         *)
(* trace_output and debug_counter are left out: the first only echoes the  *)
(* statement to the console, the second is never written after __init__.  *)
(* get_stats and reset_stats touch the counters alone and are not part of  *)
(* a run.  A token the input channel does not have ends the handler with   *)
(* "NO_INPUT" after whatever it wrote before the read.                     *)
(***************************************************************************)
EXTENDS Integers, Sequences, FiniteSets, TLC

VARIABLES
    vars,            \* self.vars: the Environment, a function name -> value
    out,             \* the output channel: the lines written by output()
    inp,             \* the input channel: the tokens not yet consumed
    err,             \* what the current/last handler raised, or "none"
    pc,              \* "idle" | "running" | "returned" | "aborted" | "blocked" | "eval" | "evaluated"
    prog,            \* the "functions" list of the program given to run()
    main,            \* the local main of run(): what find_main returned
    pos,             \* how many statements of main the loop has dispatched
    stmt,            \* the node last handed to run_stmt() / eval()
    ret,             \* what the last eval() call returned
    statement_count, \* self.statement_count
    variable_count,  \* self.variable_count
    is_running,      \* self.is_running
    runs,            \* how many times run() was called
    declared,        \* history: names def_var added during the current run
    assigned         \* history: names assign wrote during the current run

state == <<vars, out, inp, err, pc, prog, main, pos, stmt, ret,
           statement_count, variable_count, is_running, runs, declared, assigned>>

(***************************************************************************)
(* Bounds                                                                  *)
(***************************************************************************)
MaxRuns     == 2    \* calls of run() on one Interpreter
MaxStmts    == 3    \* statements dispatched by one Interpreter (caps statement_count)
MaxFuncs    == 2    \* function definitions in a program
MaxArgs     == 2    \* arguments of a call node
MaxInput    == 2    \* tokens on the input channel of an eval() call
MaxRunInput == 1    \* tokens on the input channel given to the constructor

Names     == {"x", "y"}
FuncNames == {"print", "inputi", "foo"}
IntLits   == {3, 10}
StrLits   == {"", "a"}
Tokens    == {<<"7">>, <<"-", "1", "2">>}

(***************************************************************************)
(* Node tags of InterpreterBase and the error kinds of ErrorType            *)
(***************************************************************************)
INT_NODE            == "int"
STRING_NODE         == "string"
QUALIFIED_NAME_NODE == "qname"
FCALL_NODE          == "fcall"
VAR_DEF_NODE        == "vardef"
ASSIGNMENT_NODE     == "="
NAME_ERROR          == "NAME_ERROR"
TYPE_ERROR          == "TYPE_ERROR"

(***************************************************************************)
(* AST nodes: an elem_type and the attributes get() reads.  Every node has *)
(* the same fields; kids holds op1/op2, args or the assigned expression.   *)
(***************************************************************************)
Node(t, n, i, s, k) == [elem_type |-> t, name |-> n, ival |-> i, sval |-> s, kids |-> k]
IntNode(n)          == Node(INT_NODE, "", n, "", <<>>)
StringNode(s)       == Node(STRING_NODE, "", 0, s, <<>>)
VarNode(v)          == Node(QUALIFIED_NAME_NODE, v, 0, "", <<>>)
FcallNode(f, args)  == Node(FCALL_NODE, f, 0, "", args)
BinNode(op, l, r)   == Node(op, "", 0, "", <<l, r>>)
VarDefNode(v)       == Node(VAR_DEF_NODE, v, 0, "", <<>>)
AssignNode(v, e)    == Node(ASSIGNMENT_NODE, v, 0, "", <<e>>)
NoNode              == Node("", "", 0, "", <<>>)
FuncNode(f, params) == [name |-> f, args |-> params]
NoFunc              == [name |-> "", args |-> <<>>]

(***************************************************************************)
(* Values: Python int, str and None                                        *)
(***************************************************************************)
IntVal(n) == [t |-> "int", i |-> n, s |-> ""]
StrVal(s) == [t |-> "str", i |-> 0, s |-> s]
None      == [t |-> "none", i |-> 0, s |-> ""]
isinstance_int(v) == v.t = "int"

Digits == <<"0", "1", "2", "3", "4", "5", "6", "7", "8", "9">>
RECURSIVE NatStr(_)
NatStr(n) == IF n < 10 THEN Digits[n + 1]
             ELSE NatStr(n \div 10) \o Digits[(n % 10) + 1]
\* Python str(): decimal text of an int, the string itself, "None" for None
str(v) == IF v.t = "int" THEN (IF v.i < 0 THEN "-" \o NatStr(0 - v.i) ELSE NatStr(v.i))
          ELSE IF v.t = "str" THEN v.s
          ELSE "None"

DigitVal(c) == CHOOSE d \in 0..9 : Digits[d + 1] = c
RECURSIVE NatOf(_, _)
NatOf(cs, acc) == IF cs = <<>> THEN acc
                  ELSE NatOf(Tail(cs), acc * 10 + DigitVal(Head(cs)))
\* Python int() of a numeric token, given as its characters
int(tok) == IF Head(tok) = "-" THEN 0 - NatOf(Tail(tok), 0) ELSE NatOf(tok, 0)

(***************************************************************************)
(* The result of a handler: the value returned, the channels after it, and *)
(* what it raised.  "NO_INPUT": get_input() found no token.                *)
(***************************************************************************)
R(v, o, i, e) == [val |-> v, out |-> o, inp |-> i, err |-> e]
\* InterpreterBase.error: raises; nothing after it in the handler runs
error(kind, o, i) == R(None, o, i, kind)
\* InterpreterBase.output: appends one line to the output channel
output(o, line) == Append(o, line)
\* InterpreterBase.get_input then int(): the next token, consumed
get_input(o, i) == IF i = <<>> THEN R(None, o, i, "NO_INPUT")
                   ELSE R(IntVal(int(Head(i))), o, Tail(i), "none")

RECURSIVE eval(_, _, _, _)
RECURSIVE call_func(_, _, _, _)
RECURSIVE join_args(_, _, _, _, _)

\* "".join: one more piece of the line
\* a join that puts a blank between the pieces
join_blank(acc, piece) == IF acc = "" THEN piece ELSE acc \o " " \o piece
join(acc, piece) == acc \o piece

\* the generator of line 56: str(self.eval(a)) for a in args, left to right
join_args(args, env, o, i, acc) ==
    IF args = <<>> THEN R(StrVal(acc), o, i, "none")
    ELSE LET r == eval(Head(args), env, o, i)
         IN  IF r.err # "none" THEN r
             ELSE join_args(Tail(args), env, r.out, r.inp, join(acc, str(r.val)))

\* the print branch
print(call, env, o, i) ==
    LET j == join_args(call.kids, env, o, i, "")
    IN  IF j.err # "none" THEN j
        ELSE R(None, output(j.out, j.val.s), j.inp, "none")

\* an inputi branch that evaluates its prompt and does not write it
inputi_silent(call, env, o, i) ==
    LET args == call.kids
    IN  IF Len(args) > 1 THEN error(NAME_ERROR, o, i)
        ELSE IF Len(args) = 1
             THEN LET p == eval(args[1], env, o, i)
                  IN  IF p.err # "none" THEN p
                      ELSE get_input(p.out, p.inp)
             ELSE get_input(o, i)
\* the inputi branch
inputi(call, env, o, i) ==
    LET args == call.kids
    IN  IF Len(args) > 1 THEN error(NAME_ERROR, o, i)
        ELSE IF Len(args) = 1
             THEN LET p == eval(args[1], env, o, i)
                  IN  IF p.err # "none" THEN p
                      ELSE get_input(output(p.out, str(p.val)), p.inp)
             ELSE get_input(o, i)

\* an else branch that evaluates the arguments before it rejects the name
undefined_func_eager(call, env, o, i) ==
    LET j == join_args(call.kids, env, o, i, "")
    IN  IF j.err # "none" THEN j ELSE error(NAME_ERROR, j.out, j.inp)
\* the else branch: any other function name
undefined_func(call, env, o, i) == error(NAME_ERROR, o, i)

call_func(call, env, o, i) ==
    IF call.name = "print" THEN print(call, env, o, i)
    ELSE IF call.name = "inputi" THEN inputi(call, env, o, i)
    ELSE undefined_func(call, env, o, i)

\* operands evaluated right to left
eval_operands_rtl(expr, env, o, i) ==
    LET r == eval(expr.kids[2], env, o, i)
    IN  IF r.err # "none" THEN <<r, r>>
        ELSE LET l == eval(expr.kids[1], env, r.out, r.inp)
             IN  IF l.err # "none" THEN <<l, l>> ELSE <<R(l.val, r.out, r.inp, "none"), R(r.val, l.out, l.inp, "none")>>
\* both operands of a binary node: op1 first, then op2 in the channels op1 left
eval_operands(expr, env, o, i) ==
    LET l == eval(expr.kids[1], env, o, i)
    IN  IF l.err # "none" THEN <<l, l>>
        ELSE <<l, eval(expr.kids[2], env, l.out, l.inp)>>

\* a type check that raises only when neither operand is an int
arith_and(op, l, r, o, i) ==
    IF ~isinstance_int(l) /\ ~isinstance_int(r) THEN error(TYPE_ERROR, o, i)
    ELSE IF op = "+" THEN R(IntVal(l.i + r.i), o, i, "none")
         ELSE R(IntVal(l.i - r.i), o, i, "none")
\* lines 105-112, once both operands have a value
arith(op, l, r, o, i) ==
    IF ~isinstance_int(l) \/ ~isinstance_int(r) THEN error(TYPE_ERROR, o, i)
    ELSE IF l # None /\ r # None
         THEN (IF op = "+" THEN R(IntVal(l.i + r.i), o, i, "none")
               ELSE R(IntVal(l.i - r.i), o, i, "none"))
         ELSE R(None, o, i, "none")

\* the variable reference branch
read_var(expr, env, o, i) ==
    IF expr.name \notin DOMAIN env THEN error(NAME_ERROR, o, i)
    ELSE R(env[expr.name], o, i, "none")

eval(expr, env, o, i) ==
    IF expr.elem_type = INT_NODE THEN R(IntVal(expr.ival), o, i, "none")
    ELSE IF expr.elem_type = STRING_NODE THEN R(StrVal(expr.sval), o, i, "none")
    ELSE IF expr.elem_type = QUALIFIED_NAME_NODE THEN read_var(expr, env, o, i)
    ELSE IF expr.elem_type = FCALL_NODE THEN call_func(expr, env, o, i)
    ELSE IF expr.elem_type \in {"+", "-"}
         THEN LET lr == eval_operands(expr, env, o, i)
              IN  IF lr[1].err # "none" THEN lr[1]
                  ELSE IF lr[2].err # "none" THEN lr[2]
                  ELSE arith(expr.elem_type, lr[1].val, lr[2].val, lr[2].out, lr[2].inp)
    ELSE R(None, o, i, "none")

(***************************************************************************)
(* Statements.  A statement handler returns the Environment as well.       *)
(***************************************************************************)
S(env, o, i, e) == [vars |-> env, out |-> o, inp |-> i, err |-> e]
\* a store that rebuilds the table from the one entry written
store_alone(env, v, val) == [n \in {v} |-> val]
store(env, v, val) == [n \in (DOMAIN env) \cup {v} |-> IF n = v THEN val ELSE env[n]]
EmptyVars == [n \in {} |-> None]

assign(node, env, o, i) ==
    IF node.name \notin DOMAIN env THEN S(env, o, i, NAME_ERROR)
    ELSE LET r == eval(node.kids[1], env, o, i)
         IN  IF r.err # "none" THEN S(env, r.out, r.inp, r.err)
             ELSE S(store(env, node.name, r.val), r.out, r.inp, "none")

def_var(node, env, o, i) ==
    IF node.name \in DOMAIN env THEN S(env, o, i, NAME_ERROR)
    ELSE S(store(env, node.name, None), o, i, "none")

run_stmt(s, env, o, i) ==
    IF s.elem_type = VAR_DEF_NODE THEN def_var(s, env, o, i)
    ELSE IF s.elem_type = ASSIGNMENT_NODE THEN assign(s, env, o, i)
    ELSE LET r == eval(s, env, o, i) IN S(env, r.out, r.inp, r.err)

RECURSIVE find_main(_)
find_main(functions) ==
    IF functions = <<>> THEN NoFunc
    ELSE IF Head(functions).name = "main" THEN Head(functions)
    ELSE find_main(Tail(functions))

(***************************************************************************)
(* Inputs                                                                  *)
(***************************************************************************)
SeqsUpTo(A, n) == UNION {[1..k -> A] : k \in 0..n}
Inputs     == SeqsUpTo(Tokens, MaxInput)
RunInputs  == SeqsUpTo(Tokens, MaxRunInput)
ParamLists == {<<>>, <<"a">>}
Funcs      == {FuncNode("main", ps) : ps \in ParamLists} \cup {FuncNode("foo", <<>>)}
Programs   == SeqsUpTo(Funcs, MaxFuncs)

\* the statements Spec draws from
TypeErrorExpr == BinNode("+", StringNode("a"), IntNode(3))
InputiCall    == FcallNode("inputi", <<>>)
AssignExprs   == {IntNode(3), StringNode("a"), VarNode("y"), InputiCall, TypeErrorExpr}
CallStmts     == {FcallNode("print", <<VarNode("x")>>)}
Stmts         == {VarDefNode(v) : v \in Names}
                     \cup {AssignNode(v, e) : v \in Names, e \in AssignExprs}
                     \cup CallStmts

(***************************************************************************)
(* Spec: the Interpreter object                                            *)
(***************************************************************************)
\* __init__: the state after construction, with the input the caller gave
Init ==
    /\ vars = EmptyVars
    /\ out = <<>>
    /\ inp \in RunInputs
    /\ err = "none"
    /\ pc = "idle"
    /\ prog = <<>>
    /\ main = NoFunc
    /\ pos = 0
    /\ stmt = NoNode
    /\ ret = None
    /\ statement_count = 0
    /\ variable_count = 0
    /\ is_running = FALSE
    /\ runs = 0
    /\ declared = {}
    /\ assigned = {}

\* where control is after run_stmt(stmt) raised e or returned (e = "none"):
\* nothing in run_stmt or run catches, so an error leaves run()
\* a loop that catches what run_stmt raised and goes on
after_stmt_caught(e) == IF e = "NO_INPUT" THEN "blocked" ELSE "running"
after_stmt(e) == IF e = "none" THEN "running"
                 ELSE IF e = "NO_INPUT" THEN "blocked"
                 ELSE "aborted"

\* run(program) up to the loop: lines 25-33
Run(p) ==
    /\ pc \in {"idle", "returned", "aborted"}
    /\ runs < MaxRuns
    /\ runs' = runs + 1
    /\ prog' = p
    /\ main' = find_main(p)
    /\ IF find_main(p) = NoFunc
       THEN /\ err' = NAME_ERROR
            /\ pc' = "aborted"
            /\ is_running' = is_running
       ELSE /\ err' = "none"
            /\ pc' = "running"
            /\ is_running' = TRUE
    /\ pos' = 0
    /\ stmt' = NoNode
    /\ declared' = {}
    /\ assigned' = {}
    /\ UNCHANGED <<vars, out, inp, ret, statement_count, variable_count>>

\* one iteration of the loop of run(): run_stmt(stmt), lines 34-35 and 38-50
RunStmt(s) ==
    /\ pc = "running"
    /\ statement_count < MaxStmts
    /\ LET r  == run_stmt(s, vars, out, inp)
           ok == s.elem_type = VAR_DEF_NODE /\ r.err = "none"
       IN  /\ vars' = r.vars
           /\ out' = r.out
           /\ inp' = r.inp
           /\ err' = r.err
           /\ pc' = after_stmt(r.err)
           /\ variable_count' = IF ok THEN variable_count + 1 ELSE variable_count
           /\ declared' = IF ok THEN declared \cup {s.name} ELSE declared
           /\ assigned' = IF s.elem_type = ASSIGNMENT_NODE /\ r.err = "none"
                          THEN assigned \cup {s.name} ELSE assigned
    /\ statement_count' = statement_count + 1
    /\ pos' = pos + 1
    /\ stmt' = s
    /\ UNCHANGED <<prog, main, ret, is_running, runs>>

\* the loop is exhausted: line 36
RunReturn ==
    /\ pc = "running"
    /\ pc' = "returned"
    /\ is_running' = FALSE
    /\ UNCHANGED <<vars, out, inp, err, prog, main, pos, stmt, ret,
                   statement_count, variable_count, runs, declared, assigned>>

Next ==
    \/ \E p \in Programs : Run(p)
    \/ \E s \in Stmts : RunStmt(s)
    \/ RunReturn

Spec == Init /\ [][Next]_state

(***************************************************************************)
(* SpecEval: one call of eval() in the middle of a run                     *)
(***************************************************************************)
EnvVals == {None, IntVal(3), StrVal("a")}
Envs    == UNION {[D -> EnvVals] : D \in SUBSET {"x"}}

Atoms   == {IntNode(n) : n \in IntLits} \cup {StringNode(s) : s \in StrLits}
               \cup {VarNode("x")}
Calls(A) == {FcallNode(f, as) : f \in FuncNames, as \in SeqsUpTo(A, MaxArgs)}
Bins(A)  == {BinNode(op, l, r) : op \in {"+", "-"}, l \in A, r \in A}
\* what may stand as an argument or an operand
Inner   == Atoms
               \cup {InputiCall, FcallNode("inputi", <<StringNode("a")>>), FcallNode("print", <<>>)}
               \cup {TypeErrorExpr, BinNode("-", IntNode(3), IntNode(10))}
Exprs   == Inner \cup Calls(Inner) \cup Bins(Inner)

\* a state in the middle of a run of main(): variables declared and assigned,
\* a line already written, some input left
InitEval ==
    /\ vars \in Envs
    /\ out = <<"a">>
    /\ inp \in Inputs
    /\ err = "none"
    /\ pc = "eval"
    /\ prog = <<FuncNode("main", <<>>)>>
    /\ main = FuncNode("main", <<>>)
    /\ pos = 0
    /\ stmt = NoNode
    /\ ret = None
    /\ statement_count = 0
    /\ variable_count = Cardinality(DOMAIN vars)
    /\ is_running = TRUE
    /\ runs = 1
    /\ declared = DOMAIN vars
    /\ assigned = {n \in DOMAIN vars : vars[n] # None}

\* eval(expr): lines 86-112
EvalExpr(e) ==
    /\ pc = "eval"
    /\ LET r == eval(e, vars, out, inp)
       IN  /\ ret' = r.val
           /\ out' = r.out
           /\ inp' = r.inp
           /\ err' = r.err
    /\ pc' = "evaluated"
    /\ stmt' = e
    /\ UNCHANGED <<vars, prog, main, pos, statement_count, variable_count,
                   is_running, runs, declared, assigned>>

NextEval == \E e \in Exprs : EvalExpr(e)

SpecEval == InitEval /\ [][NextEval]_state

(***************************************************************************)
(* Claims checked under Spec                                               *)
(***************************************************************************)
\* a step of the loop of run(): run_stmt was called on stmt'
Dispatched == pc = "running" /\ pos' = pos + 1
IsPrefix(a, b) == Len(a) <= Len(b) /\ SubSeq(b, 1, Len(a)) = a
\* the variable a statement of Stmts reads, if it reads one
Reads(s, v) ==
    \/ s = FcallNode("print", <<VarNode(v)>>)
    \/ /\ s.elem_type = ASSIGNMENT_NODE
       /\ s.name \in DOMAIN vars
       /\ s.kids[1] = VarNode(v)

\* C1: within one run, reading or assigning v before a declaration of v in
\* that run aborts with NAME_ERROR, declaring v a second time aborts with
\* NAME_ERROR, and reading v after its declaration and before any assignment
\* raises nothing and yields None.
DeclareBeforeUse ==
    [][Dispatched =>
        /\ \A v \in Names :
             /\ (stmt'.elem_type = ASSIGNMENT_NODE /\ stmt'.name = v /\ v \notin declared)
                    => err' = NAME_ERROR
             /\ (Reads(stmt', v) /\ v \notin declared) => err' = NAME_ERROR
             /\ (stmt' = VarDefNode(v) /\ v \in declared) => err' = NAME_ERROR
             /\ (Reads(stmt', v) /\ v \in declared /\ v \notin assigned)
                    => /\ err' = "none"
                       /\ stmt'.elem_type = ASSIGNMENT_NODE => vars'[stmt'.name] = None
    ]_state

\* C2: every call of run() starts with an empty Environment.
FreshEnvironmentPerRun ==
    (pc = "running" /\ pos = 0) => vars = EmptyVars

\* C3: once NAME_ERROR or TYPE_ERROR is raised in a run, that run dispatches
\* no statement, writes no line, consumes no token and does not change the
\* Environment; the lines written before the error stay as they are.
FailFast ==
    [][/\ (err \in {NAME_ERROR, TYPE_ERROR} /\ runs' = runs)
            => /\ out' = out
               /\ inp' = inp
               /\ vars' = vars
               /\ stmt' = stmt
               /\ pos' = pos
               /\ statement_count' = statement_count
       /\ IsPrefix(out, out')
    ]_state
FailFastWitness ==
    /\ pc = "aborted"
    /\ err = TYPE_ERROR
    /\ stmt = AssignNode("x", TypeErrorExpr)
    /\ out = <<"None">>
    /\ vars = [n \in {"x"} |-> None]
    /\ pos = 3

\* C4: run() aborts with NAME_ERROR before any statement is dispatched
\* whenever the program has no function named main with zero parameters, and
\* otherwise the main it executes is the first such function.
HasEntry(functions) ==
    \E k \in 1..Len(functions) : functions[k].name = "main" /\ functions[k].args = <<>>
MainTakesNoParameters ==
    runs >= 1 =>
        IF HasEntry(prog)
        THEN main.name = "main" /\ main.args = <<>>
        ELSE pc = "aborted" /\ err = NAME_ERROR /\ pos = 0

\* C10: the names of the Environment only grow; a successful declaration adds
\* its name with None and nothing else; a successful assignment changes the
\* value of its name alone, whatever kind was stored; an expression statement
\* and a statement that raises leave the Environment as it was.
EnvironmentFrame ==
    [][/\ DOMAIN vars \subseteq DOMAIN vars'
       /\ Dispatched =>
            LET s == stmt'
                v == stmt'.name
            IN  /\ (s.elem_type = VAR_DEF_NODE /\ err' = "none")
                     => /\ v \notin DOMAIN vars
                        /\ DOMAIN vars' = DOMAIN vars \cup {v}
                        /\ vars'[v] = None
                        /\ \A n \in DOMAIN vars : vars'[n] = vars[n]
                /\ (s.elem_type = ASSIGNMENT_NODE /\ err' = "none")
                     => /\ DOMAIN vars' = DOMAIN vars
                        /\ vars'[v] = eval(s.kids[1], vars, out, inp).val
                        /\ \A n \in DOMAIN vars \ {v} : vars'[n] = vars[n]
                /\ (s.elem_type = FCALL_NODE \/ err' # "none") => vars' = vars
    ]_state
EnvironmentFrameWitness ==
    /\ pc = "running"
    /\ stmt = AssignNode("x", StringNode("a"))
    /\ DOMAIN vars = {"x", "y"}
    /\ vars["x"] = StrVal("a")
    /\ vars["y"] = None
    /\ err = "none"

(***************************************************************************)
(* Claims checked under SpecEval                                           *)
(***************************************************************************)
\* the step that evaluates stmt'
Evaluated == pc = "eval" /\ pc' = "evaluated"
\* the textual form the contract names: decimal text, or the string itself
Text(v) == IF v.t = "int" THEN ToString(v.i) ELSE v.s
Printable(v) == v.t \in {"int", "str"}
\* the integer a token of Tokens stands for
TokVal(tok) == IF tok = <<"7">> THEN 7 ELSE 0 - 12
RECURSIVE Concat(_)
Concat(vs) == IF vs = <<>> THEN "" ELSE Text(Head(vs)) \o Concat(Tail(vs))
\* the arguments evaluated one after the other, each in the channels the one
\* before it left, up to the first that raises
RECURSIVE ArgValues(_, _, _, _, _)
ArgValues(args, env, o, i, vs) ==
    IF args = <<>> THEN [vals |-> vs, out |-> o, inp |-> i, err |-> "none"]
    ELSE LET r == eval(Head(args), env, o, i)
         IN  IF r.err # "none" THEN [vals |-> vs, out |-> r.out, inp |-> r.inp, err |-> r.err]
             ELSE ArgValues(Tail(args), env, r.out, r.inp, Append(vs, r.val))

\* C5: a binary + or - whose operands evaluate to integers l and r yields
\* l + r or l - r, never None; if an operand is not an integer (a string, or
\* None) it raises TYPE_ERROR.
BinaryArithmetic ==
    [][(Evaluated /\ stmt'.elem_type \in {"+", "-"}) =>
        LET l == eval(stmt'.kids[1], vars, out, inp)
            r == eval(stmt'.kids[2], vars, l.out, l.inp)
        IN  (l.err = "none" /\ r.err = "none") =>
                IF l.val.t = "int" /\ r.val.t = "int"
                THEN /\ err' = "none"
                     /\ ret' # None
                     /\ ret' = IntVal(IF stmt'.elem_type = "+"
                                      THEN l.val.i + r.val.i ELSE l.val.i - r.val.i)
                ELSE err' = TYPE_ERROR
    ]_state
BinaryArithmeticWitness ==
    /\ pc = "evaluated"
    /\ stmt = BinNode("-", VarNode("x"), BinNode("-", IntNode(3), IntNode(10)))
    /\ vars = [n \in {"x"} |-> IntVal(3)]
    /\ ret = IntVal(10)
    /\ err = "none"

\* C6: a print call that completes appends exactly one line after whatever its
\* arguments wrote, the texts of its argument values joined with nothing
\* between them, and returns None; a print call one of whose arguments raises
\* appends no line of its own.
PrintOneLine ==
    [][(Evaluated /\ stmt'.elem_type = FCALL_NODE /\ stmt'.name = "print") =>
        LET a == ArgValues(stmt'.kids, vars, out, inp, <<>>)
        IN  IF a.err = "none"
            THEN /\ err' = "none"
                 /\ ret' = None
                 /\ inp' = a.inp
                 /\ Len(out') = Len(a.out) + 1
                 /\ IsPrefix(a.out, out')
                 /\ (\A k \in 1..Len(a.vals) : Printable(a.vals[k]))
                        => out'[Len(out')] = Concat(a.vals)
            ELSE /\ err' = a.err
                 /\ out' = a.out
    ]_state
PrintOneLineWitness ==
    /\ pc = "evaluated"
    /\ stmt = FcallNode("print", <<StringNode("a"), BinNode("-", IntNode(3), IntNode(10))>>)
    /\ out = <<"a", "a-7">>
    /\ ret = None
    /\ err = "none"

\* C7: a call of a name other than print and inputi, and a call of inputi
\* with two or more arguments, raises NAME_ERROR without evaluating any
\* argument: it writes no line and consumes no token.
RejectedCall(e) ==
    /\ e.elem_type = FCALL_NODE
    /\ \/ e.name \notin {"print", "inputi"}
       \/ e.name = "inputi" /\ Len(e.kids) >= 2
RejectedCallsEvaluateNothing ==
    [][(Evaluated /\ RejectedCall(stmt')) =>
            /\ err' = NAME_ERROR
            /\ out' = out
            /\ inp' = inp
    ]_state
RejectedCallsWitness ==
    /\ pc = "evaluated"
    /\ stmt = FcallNode("foo", <<FcallNode("inputi", <<StringNode("a")>>), TypeErrorExpr>>)
    /\ err = NAME_ERROR
    /\ out = <<"a">>
    /\ Len(inp) = 2

\* C8: the left operand is evaluated before the right one and the arguments of
\* print in order of position, so inputi() - inputi() on tokens t1, t2 yields
\* t1 - t2; the right operand is evaluated, with its effects, even when the
\* left one is not an integer.
LeftToRight ==
    [][Evaluated =>
        /\ stmt'.elem_type \in {"+", "-"} =>
             LET l == eval(stmt'.kids[1], vars, out, inp)
                 r == eval(stmt'.kids[2], vars, l.out, l.inp)
             IN  l.err = "none" => (out' = r.out /\ inp' = r.inp)
        /\ (stmt' = BinNode("-", InputiCall, InputiCall) /\ Len(inp) >= 2)
             => /\ ret' = IntVal(TokVal(inp[1]) - TokVal(inp[2]))
                /\ inp' = Tail(Tail(inp))
        /\ (stmt' = FcallNode("print", <<InputiCall, InputiCall>>) /\ Len(inp) >= 2)
             => out' = Append(out, ToString(TokVal(inp[1])) \o ToString(TokVal(inp[2])))
        /\ (stmt' = BinNode("+", StringNode("a"), InputiCall) /\ inp # <<>>)
             => (err' = TYPE_ERROR /\ inp' = Tail(inp))
    ]_state
LeftToRightWitness ==
    /\ pc = "evaluated"
    /\ stmt = BinNode("-", InputiCall, InputiCall)
    /\ ret = IntVal(19)
    /\ inp = <<>>
    /\ err = "none"

\* C9: an inputi call that completes consumes exactly one token and returns
\* it as an integer; with one argument it writes the text of that argument as
\* one line before it reads, with none it writes nothing; the prompt of an
\* inputi(p) that is an argument of print precedes the line of that print.
InputiOneToken ==
    [][Evaluated =>
        /\ (stmt'.elem_type = FCALL_NODE /\ stmt'.name = "inputi" /\ Len(stmt'.kids) <= 1) =>
             LET p == IF Len(stmt'.kids) = 1 THEN eval(stmt'.kids[1], vars, out, inp)
                      ELSE R(None, out, inp, "none")
             IN  p.err = "none" =>
                    /\ IF Len(stmt'.kids) = 0 THEN out' = out
                       ELSE /\ Len(out') = Len(p.out) + 1
                            /\ IsPrefix(p.out, out')
                            /\ Printable(p.val) => out'[Len(out')] = Text(p.val)
                    /\ IF p.inp # <<>>
                       THEN /\ err' = "none"
                            /\ inp' = Tail(p.inp)
                            /\ ret' = IntVal(TokVal(Head(p.inp)))
                       ELSE /\ err' = "NO_INPUT"
                            /\ inp' = <<>>
        /\ (stmt' = FcallNode("print", <<FcallNode("inputi", <<StringNode("a")>>)>>) /\ inp # <<>>)
             => out' = out \o <<"a", ToString(TokVal(Head(inp)))>>
    ]_state
InputiOneTokenWitness ==
    /\ pc = "evaluated"
    /\ stmt = FcallNode("print", <<FcallNode("inputi", <<StringNode("a")>>)>>)
    /\ out = <<"a", "a", "-12">>
    /\ inp = <<<<"7">>>>
    /\ err = "none"
====
